---------------------------- MODULE Spec2Model ----------------------------
(***************************************************************************)
(* Keystroke-dynamics verification: the SQL functions of the migrations    *)
(* (validate_keystroke_array, normalize_keystroke_pattern,                 *)
(* calculate_adaptive_threshold, verify_keystroke_pattern, the             *)
(* calculate_keystroke_times trigger) and the login / signup pages that    *)
(* call them.                                                              *)
(*                                                                         *)
(* Numbers.  SQL floats are modelled in fixed point: a score, a threshold, *)
(* a z-score or a similarity x is the integer x * Scale.  Raw timings      *)
(* (press, release, dwell, flight) are integers in milliseconds.  SQL NULL *)
(* is the value NULL, and comparisons with NULL are not true, as in SQL.   *)
(***************************************************************************)
EXTENDS Integers, Sequences, FiniteSets, TLC

VARIABLES
  sessions,      \* keystroke_sessions joined with keystroke_data: id -> [user_id, rows]
  attempts,      \* auth_attempts, in insertion order
  pc,            \* position of the page's async handler (debouncedLogin / debouncedSignup)
  run,           \* the handler's locals: user, keystrokes, sessionData.id, verificationData
  page,          \* the route the browser shows
  accounts,      \* auth.users: the users that signed up
  input,         \* argument of the function under test (function-level specifications)
  output         \* its result

vars == <<sessions, attempts, pc, run, page, accounts, input, output>>

---------------------------------------------------------------------------
(* Bounds of the model *)

MaxLen == 2          \* keystrokes per typed session
MaxSessions == 3     \* rows of keystroke_sessions
MaxArr == 3          \* length of an array handed to the validator
MaxHist == 3         \* attempts of a freely drawn attempt history
MaxGrid == 20        \* score / threshold grid of the decision rule: k / MaxGrid

---------------------------------------------------------------------------
(* Fixed point and SQL values *)

Scale == 10 * 100

NULL == -1000000

IsNull(x) == x = NULL

\* SQL comparison: not true when either side is NULL
Lt(a, b) == ~IsNull(a) /\ ~IsNull(b) /\ a < b
Le(a, b) == ~IsNull(a) /\ ~IsNull(b) /\ a <= b
Gt(a, b) == Lt(b, a)
Ge(a, b) == Le(b, a)
Ne(a, b) == ~IsNull(a) /\ ~IsNull(b) /\ a # b

Coalesce(x, d) == IF IsNull(x) THEN d ELSE x

\* GREATEST ignores NULL arguments
Greatest(a, b) == IF IsNull(a) THEN b ELSE IF IsNull(b) THEN a ELSE IF a >= b THEN a ELSE b

Abs(x) == IF x < 0 THEN -x ELSE x

\* float division, rounded towards zero
Quot(a, b) == IF a >= 0 THEN a \div b ELSE -((-a) \div b)

RECURSIVE SqrtIter(_, _, _)
SqrtIter(n, lo, hi) ==
  IF lo >= hi THEN lo
  ELSE LET mid == (lo + hi + 1) \div 2
       IN IF mid * mid <= n THEN SqrtIter(n, mid, hi) ELSE SqrtIter(n, lo, mid - 1)

\* sqrt(n), rounded down
Sqrt(n) == SqrtIter(n, 0, IF n < 46340 THEN n ELSE 46340)

RECURSIVE SumSeq(_)
SumSeq(s) == IF s = <<>> THEN 0 ELSE Head(s) + SumSeq(Tail(s))

\* the non-NULL entries of a column, which SQL aggregates read
NonNull(s) == SelectSeq(s, LAMBDA x : ~IsNull(x))

\* avg(): NULL over no rows; xs are integers, the result keeps their unit
Avg(s) == LET v == NonNull(s) IN IF v = <<>> THEN NULL ELSE Quot(SumSeq(v), Len(v))

\* stddev() is stddev_samp: NULL over fewer than two rows
Stddev(s) ==
  LET v == NonNull(s)
      m == Avg(v)
      sq == [i \in 1..Len(v) |-> (v[i] - m) * (v[i] - m)]
  IN IF Len(v) < 2 THEN NULL ELSE Sqrt(SumSeq(sq) \div (Len(v) - 1))

\* array_length(arr, 1): NULL for an empty array
ArrayLength(arr) == IF Len(arr) = 0 THEN NULL ELSE Len(arr)

---------------------------------------------------------------------------
(* validate_keystroke_array *)

MaxMs == 5000

validate_value_nocap(value) ==
  IF IsNull(value) \/ Lt(value, 0) THEN 0 ELSE value

validate_value(value) ==
  IF IsNull(value) \/ Lt(value, 0) \/ Gt(value, MaxMs) THEN 0 ELSE value

validate_keystroke_array(arr) == [i \in 1..Len(arr) |-> validate_value(arr[i])]

---------------------------------------------------------------------------
(* Function-level specification: the validator on every bounded array *)

RawValues == {NULL, -1, 0, 1, MaxMs - 1, MaxMs, MaxMs + 1}

RECURSIVE SeqsUpTo(_, _)
SeqsUpTo(S, n) ==
  IF n = 0 THEN {<<>>}
  ELSE LET shorter == SeqsUpTo(S, n - 1)
       IN shorter \cup {Append(s, x) : s \in {t \in shorter : Len(t) = n - 1}, x \in S}

NoOutput == [done |-> FALSE]

\* the handler's locals before a submit
IdleRun ==
  [flow |-> "none", user |-> "nobody", keystrokes |-> <<>>, session_id |-> NULL,
   uid |-> "nobody", verification |-> [raised |-> FALSE], error |-> FALSE]

PagesIdle ==
  /\ sessions = <<>>
  /\ attempts = <<>>
  /\ pc = "idle"
  /\ run = IdleRun
  /\ page = "login"
  /\ accounts = {}

pageVars == <<sessions, attempts, pc, run, page, accounts>>

InitValidate ==
  /\ PagesIdle
  /\ input \in {[arr |-> a] : a \in SeqsUpTo(RawValues, MaxArr)}
  /\ output = NoOutput

ApplyValidate ==
  /\ ~output.done
  /\ output' = [done |-> TRUE, arr |-> validate_keystroke_array(input.arr)]
  /\ UNCHANGED <<pageVars, input>>

NextValidate == ApplyValidate

SpecValidate == InitValidate /\ [][NextValidate]_vars

\* C10: the validator returns a series of the same length; an entry that was
\* null, negative or above 5000 becomes 0, an entry in [0, 5000] is unchanged.
C10_ValidatorSanitizes ==
  output.done =>
    /\ Len(output.arr) = Len(input.arr)
    /\ \A i \in 1..Len(input.arr) :
         LET v == input.arr[i]
         IN /\ (v = NULL \/ v < 0 \/ v > 5000) => output.arr[i] = 0
            /\ (v # NULL /\ v >= 0 /\ v <= 5000) => output.arr[i] = v

\* a validated array that held a null, a negative, an oversized and a valid entry
C10_Witness ==
  /\ output.done
  /\ \E i, j, k \in 1..Len(input.arr) :
       /\ input.arr[i] = NULL
       /\ input.arr[j] = MaxMs + 1
       /\ input.arr[k] = MaxMs /\ output.arr[k] = MaxMs

---------------------------------------------------------------------------
(* The decision rule of verify_keystroke_pattern (its final CASE) *)

recommendation_strict(match_score, adaptive_threshold) ==
  IF Gt(match_score, adaptive_threshold) THEN "accept"
  ELSE IF Gt(match_score * 10, adaptive_threshold * 8) THEN "challenge"
  ELSE "reject"

\* adaptive_threshold * 0.8 is compared exactly: m >= t * 8 / 10  iff  m * 10 >= t * 8
recommendation(match_score, adaptive_threshold) ==
  IF Ge(match_score, adaptive_threshold) THEN "accept"
  ELSE IF Ge(match_score * 10, adaptive_threshold * 8) THEN "challenge"
  ELSE "reject"

Grid == {(k * Scale) \div MaxGrid : k \in 0..MaxGrid}

InitDecision ==
  /\ PagesIdle
  /\ input \in {[match_score |-> m, threshold |-> t] : m \in Grid, t \in Grid}
  /\ output = NoOutput

ApplyDecision ==
  /\ ~output.done
  /\ output' = [done |-> TRUE,
                recommendation |-> recommendation(input.match_score, input.threshold)]
  /\ UNCHANGED <<pageVars, input>>

NextDecision == ApplyDecision

SpecDecision == InitDecision /\ [][NextDecision]_vars

\* C2: the recommendation is one of accept, challenge, reject: accept iff
\* match_score >= threshold, challenge iff threshold * 0.8 <= match_score <
\* threshold, reject in every other case.
C2_RecommendationRule ==
  output.done =>
    LET m == input.match_score
        t == input.threshold
        r == output.recommendation
    IN /\ r \in {"accept", "challenge", "reject"}
       /\ (r = "accept") <=> (m >= t)
       /\ (r = "challenge") <=> (t * 8 <= m * 10 /\ m < t)
       /\ (r = "reject") <=> (m * 10 < t * 8)

\* a score exactly at 0.8 * threshold, below the threshold: challenge
C2_Witness ==
  /\ output.done
  /\ input.threshold > 0
  /\ input.match_score * 10 = input.threshold * 8
  /\ output.recommendation = "challenge"

---------------------------------------------------------------------------
(* calculate_adaptive_threshold *)

TicksPerDay == 2                     \* clock ticks per day
WindowDays == 7                      \* interval '7 days'
WindowTicks == WindowDays * TicksPerDay
DefaultRecentAttempts == 10          \* recent_attempts int DEFAULT 10
\* a slip in the default
DefaultThreshold_half == Scale \div 2

DefaultThreshold == (7 * Scale) \div 10     \* COALESCE(threshold, 0.7)

\* the WHERE clause of the inner query
recent_success_any_time(aa, now, user_id) ==
  /\ aa.user_id = user_id
  /\ aa.success = TRUE

recent_success(aa, now, user_id) ==
  /\ aa.user_id = user_id
  /\ aa.success = TRUE
  /\ aa.attempted_at > now - WindowTicks

\* ORDER BY attempted_at DESC (rows carry distinct timestamps)
RECURSIVE OrderByAttemptedAtDesc(_)
OrderByAttemptedAtDesc(rows) ==
  IF rows = <<>> THEN <<>>
  ELSE LET i == CHOOSE k \in 1..Len(rows) :
                  \A j \in 1..Len(rows) : rows[j].attempted_at <= rows[k].attempted_at
           rest == [j \in 1..(Len(rows) - 1) |-> IF j < i THEN rows[j] ELSE rows[j + 1]]
       IN <<rows[i]>> \o OrderByAttemptedAtDesc(rest)

Limit(rows, n) == SubSeq(rows, 1, IF Len(rows) < n THEN Len(rows) ELSE n)

\* the subquery recent_scores: the match_score column of the selected rows
recent_scores(atts, now, user_id, recent_attempts) ==
  LET hits == SelectSeq(atts, LAMBDA aa : recent_success(aa, now, user_id))
      top == Limit(OrderByAttemptedAtDesc(hits), recent_attempts)
  IN [i \in 1..Len(top) |-> top[i].match_score]

\* a slip that sums instead of averaging
scaled_sum(scores) ==
  IF NonNull(scores) = <<>> THEN NULL ELSE (SumSeq(NonNull(scores)) * 8) \div 10

\* avg(match_score) * 0.8
scaled_average(scores) ==
  IF IsNull(Avg(scores)) THEN NULL ELSE (Avg(scores) * 8) \div 10

calculate_adaptive_threshold(atts, now, user_id, recent_attempts) ==
  Coalesce(scaled_average(recent_scores(atts, now, user_id, recent_attempts)),
           DefaultThreshold)

---------------------------------------------------------------------------
(* Function-level specification: the threshold on bounded attempt histories *)

Users == {"u1", "u2"}

Score(k) == (k * Scale) \div 10

\* what one auth_attempts row can hold: the subject's successful attempts
\* with every score (or none recorded), a failed one, another user's
AttemptKinds ==
  {[user_id |-> "u1", success |-> TRUE, match_score |-> s] :
      s \in {NULL, 0, Score(7), Score(8), Score(9), Scale}}
  \cup {[user_id |-> "u1", success |-> FALSE, match_score |-> Scale],
        [user_id |-> "u2", success |-> TRUE, match_score |-> Scale]}

\* a history one longer than the cap: j rows of kind a, then rows of kind b
LongHist == DefaultRecentAttempts + 1
Blocks ==
  {[i \in 1..LongHist |-> IF i <= j THEN a ELSE b] :
      a \in AttemptKinds, b \in AttemptKinds, j \in 0..LongHist}

ThresholdNow == 2 * WindowTicks + LongHist

\* the newest attempt is lag ticks old, each earlier one a tick older
Stamped(kinds, lag) ==
  [i \in 1..Len(kinds) |->
     [user_id |-> kinds[i].user_id, success |-> kinds[i].success,
      keystroke_match |-> FALSE,
      match_score |-> kinds[i].match_score,
      attempted_at |-> ThresholdNow - lag - (Len(kinds) - i)]]

Lags == {0, WindowTicks - 2, WindowTicks}

InitThreshold ==
  /\ PagesIdle
  /\ input \in {[attempts |-> Stamped(h, lag), now |-> ThresholdNow, user_id |-> "u1"] :
                  h \in SeqsUpTo(AttemptKinds, MaxHist) \cup Blocks, lag \in Lags}
  /\ output = NoOutput

ApplyThreshold ==
  /\ ~output.done
  /\ output' = [done |-> TRUE,
                threshold |-> calculate_adaptive_threshold(
                                input.attempts, input.now, input.user_id,
                                DefaultRecentAttempts)]
  /\ UNCHANGED <<pageVars, input>>

NextThreshold == ApplyThreshold

SpecThreshold == InitThreshold /\ [][NextThreshold]_vars

\* the subject's successful attempts inside the window
InWindow(atts, now, u) ==
  {i \in 1..Len(atts) :
     atts[i].user_id = u /\ atts[i].success /\ now - atts[i].attempted_at < WindowTicks}

\* of those, the ones with fewer than 10 more recent ones
MostRecent(atts, now, u) ==
  {i \in InWindow(atts, now, u) :
     Cardinality({j \in InWindow(atts, now, u) :
                    atts[j].attempted_at > atts[i].attempted_at}) < 10}

Scored(atts, now, u) == {i \in MostRecent(atts, now, u) : atts[i].match_score # NULL}

RECURSIVE SumScores(_, _)
SumScores(atts, I) ==
  IF I = {} THEN 0
  ELSE LET i == CHOOSE k \in I : TRUE IN atts[i].match_score + SumScores(atts, I \ {i})

\* C8: the threshold is 0.8 times the mean match_score of the subject's most
\* recent (at most 10) successful attempts inside the 7-day window, and 0.7
\* when there is no such score; for the scores 0.9, 0.8, 0.7 it is 0.64.
C8_AdaptiveThreshold ==
  output.done =>
    LET S == Scored(input.attempts, input.now, input.user_id)
    IN /\ S = {} => output.threshold = (7 * Scale) \div 10
       /\ S # {} =>
            output.threshold =
              ((SumScores(input.attempts, S) \div Cardinality(S)) * 8) \div 10
       /\ ( /\ Len(input.attempts) = 3
            /\ S = {1, 2, 3}
            /\ input.attempts[3].match_score = Score(9)
            /\ input.attempts[2].match_score = Score(8)
            /\ input.attempts[1].match_score = Score(7) )
          => output.threshold = (64 * Scale) \div 100

\* eleven qualifying attempts: the oldest one is left out of the mean
C8_Witness ==
  /\ output.done
  /\ Cardinality(InWindow(input.attempts, input.now, input.user_id)) = 11
  /\ input.attempts[1].match_score = 0
  /\ input.attempts[2].match_score = Scale
  /\ output.threshold = (8 * Scale) \div 10

\* C9: the threshold lies in [0, 1] for every attempt history.
C9_ThresholdInUnitInterval ==
  output.done => output.threshold >= 0 /\ output.threshold <= Scale

\* a threshold computed from recorded scores, not the default
C9_Witness ==
  /\ output.done
  /\ Scored(input.attempts, input.now, input.user_id) # {}
  /\ output.threshold = (8 * Scale) \div 10

---------------------------------------------------------------------------
(* normalize_keystroke_pattern (the version that validates its inputs) *)

MinStdInv == 10000                   \* min_std = 0.0001 = 1 / MinStdInv

\* the column x of the cross join "unnest(xs) x, unnest(ys) y"
CrossColumn(xs, ys) ==
  [k \in 1..(Len(xs) * Len(ys)) |-> xs[((k - 1) \div Len(ys)) + 1]]

\* avg(x) over the cross join, in fixed point
CrossAvg(xs, ys) == Avg([k \in 1..(Len(xs) * Len(ys)) |-> CrossColumn(xs, ys)[k] * Scale])

\* stddev(x) over the cross join, in fixed point
CrossStddev(xs, ys) ==
  Stddev([k \in 1..(Len(xs) * Len(ys)) |-> CrossColumn(xs, ys)[k] * Scale])

\* a slip that divides by the deviation as it is
ZScore_nofloor(x, mean, std) ==
  IF IsNull(mean) \/ IsNull(std) \/ std = 0 THEN NULL
  ELSE Quot((x * Scale - mean) * Scale, std)

\* (x - mean) / GREATEST(std, min_std), in fixed point
ZScore(x, mean, std) ==
  IF IsNull(mean) THEN NULL
  ELSE IF IsNull(std) \/ std * MinStdInv < Scale
       THEN (x * Scale - mean) * MinStdInv
       ELSE Quot((x * Scale - mean) * Scale, std)

NullPattern == [is_null |-> TRUE, rows |-> <<>>]

normalize_keystroke_pattern(dwell_times, flight_times) ==
  LET d == validate_keystroke_array(dwell_times)
      f == validate_keystroke_array(flight_times)
      dwell_mean == CrossAvg(d, f)
      dwell_std == CrossStddev(d, f)
      flight_mean == CrossAvg(f, d)
      flight_std == CrossStddev(f, d)
      n == IF Len(d) > Len(f) THEN Len(d) ELSE Len(f)
      at(arr, i) == IF i <= Len(arr) THEN arr[i] ELSE NULL
      z(x, mean, std) == IF IsNull(x) THEN NULL ELSE ZScore(x, mean, std)
  IN IF Ne(ArrayLength(d), ArrayLength(f)) THEN NullPattern
     ELSE [is_null |-> FALSE,
           rows |-> [i \in 1..n |-> <<z(at(d, i), dwell_mean, dwell_std),
                                      z(at(f, i), flight_mean, flight_std)>>]]

---------------------------------------------------------------------------
(* Function-level specification: the normalizer on every bounded pair of series *)

\* what a dwell_time / flight_time entry can hold: nothing, zero, milliseconds
NormValues == {NULL, 0, 1, 3}

InitNormalize ==
  /\ PagesIdle
  /\ input \in {[dwell_times |-> d, flight_times |-> f] :
                  d \in SeqsUpTo(NormValues, MaxArr), f \in SeqsUpTo(NormValues, MaxArr)}
  /\ output = NoOutput

ApplyNormalize ==
  /\ ~output.done
  /\ output' = [done |-> TRUE,
                pattern |-> normalize_keystroke_pattern(input.dwell_times,
                                                        input.flight_times)]
  /\ UNCHANGED <<pageVars, input>>

NextNormalize == ApplyNormalize

SpecNormalize == InitNormalize /\ [][NextNormalize]_vars

\* the series as the statistics read it
Sanitized(arr) == [i \in 1..Len(arr) |-> IF arr[i] = NULL \/ arr[i] < 0 THEN 0 ELSE arr[i]]

IsConstant(arr) == \A i, j \in 1..Len(arr) : arr[i] = arr[j]

\* a session of n >= 1 samples was normalized
NormalizedSession ==
  /\ output.done
  /\ Len(input.dwell_times) = Len(input.flight_times)
  /\ Len(input.dwell_times) >= 1

\* C11: normalizing a session whose dwell (or flight) series is constant, a
\* single sample included, gives z-score 0 at every index of that feature,
\* and no null.
C11_ConstantSeriesIsZero ==
  NormalizedSession =>
    /\ ~output.pattern.is_null
    /\ Len(output.pattern.rows) = Len(input.dwell_times)
    /\ IsConstant(Sanitized(input.dwell_times))
         => \A i \in 1..Len(output.pattern.rows) : output.pattern.rows[i][1] = 0
    /\ IsConstant(Sanitized(input.flight_times))
         => \A i \in 1..Len(output.pattern.rows) : output.pattern.rows[i][2] = 0

\* C11: a constant non-zero dwell series beside a varying flight series
C11_Witness ==
  /\ NormalizedSession
  /\ input.dwell_times = <<3, 3>>
  /\ input.flight_times = <<0, 1>>
  /\ output.pattern.rows[1][1] = 0
  /\ output.pattern.rows[1][2] # 0

\* the mean of a series, in fixed point
OwnMean(arr) == Avg([i \in 1..Len(arr) |-> arr[i] * Scale])

\* the sample standard deviation of a series, in fixed point
OwnSampleStd(arr) == Stddev([i \in 1..Len(arr) |-> arr[i] * Scale])

\* the population standard deviation of a series, in fixed point
OwnPopulationStd(arr) ==
  LET m == OwnMean(arr)
      sq == [i \in 1..Len(arr) |-> (arr[i] * Scale - m) * (arr[i] * Scale - m)]
  IN Sqrt(SumSeq(sq) \div Len(arr))

\* (x - mean) / max(std, floor) with the statistics of the series itself
OwnZ(arr, i, std) ==
  IF std * MinStdInv < Scale THEN (arr[i] * Scale - OwnMean(arr)) * MinStdInv
  ELSE Quot((arr[i] * Scale - OwnMean(arr)) * Scale, std)

UsesOwnStatistics(arr, column) ==
  \/ \A i \in 1..Len(arr) :
       output.pattern.rows[i][column] = OwnZ(arr, i, Coalesce(OwnSampleStd(arr), 0))
  \/ \A i \in 1..Len(arr) :
       output.pattern.rows[i][column] = OwnZ(arr, i, OwnPopulationStd(arr))

\* C12: dwell_z[i] is (dwell[i] - mean) / max(std, floor) with the mean and
\* the standard deviation (sample or population) of the session's own n dwell
\* values, and likewise for flight.
C12_ZScoreOfOwnSeries ==
  NormalizedSession =>
    /\ ~output.pattern.is_null
    /\ UsesOwnStatistics(Sanitized(input.dwell_times), 1)
    /\ UsesOwnStatistics(Sanitized(input.flight_times), 2)

\* C12: two samples with dwell 1 and 3 were normalized
C12_Witness ==
  /\ NormalizedSession
  /\ input.dwell_times = <<1, 3>>
  /\ input.flight_times = <<0, 1>>
  /\ output.pattern.rows[1][1] < 0

\* C26: normalize_keystroke_pattern returns no pattern for every pair of
\* series of different lengths, also when exactly one of them is empty, and
\* a pattern of length n when both have length n >= 1.
C26_LengthMismatchIsNoPattern ==
  output.done =>
    /\ Len(input.dwell_times) # Len(input.flight_times) => output.pattern.is_null
    /\ (Len(input.dwell_times) = Len(input.flight_times) /\ Len(input.dwell_times) >= 1)
         => /\ ~output.pattern.is_null
            /\ Len(output.pattern.rows) = Len(input.dwell_times)

\* C26: an empty dwell series beside two flight times was normalized
C26_Witness ==
  /\ output.done
  /\ input.dwell_times = <<>>
  /\ input.flight_times = <<1, 3>>
  /\ ~output.pattern.is_null
  /\ Len(output.pattern.rows) = 2

---------------------------------------------------------------------------
(* verify_keystroke_pattern *)

HistoryLimit == 5                    \* LIMIT 5

\* json_build_object: the keys a result can carry; NULL / "absent" / FALSE: no such key
NoJson ==
  [raised |-> FALSE, match_score |-> NULL, threshold |-> NULL, error |-> FALSE,
   reason |-> FALSE, recommendation |-> "absent",
   dwell_time_match |-> NULL, flight_time_match |-> NULL,
   pattern_consistency |-> NULL, overall_confidence |-> NULL,
   patterns_compared |-> NULL, pattern_length |-> NULL]

\* auth.uid() of a caller that is not signed in
NullUser == "null"

\* RAISE EXCEPTION 'Unauthorized access'
Raised == [NoJson EXCEPT !.raised = TRUE]

\* the rows of keystroke_data of one session, in created_at order
KeystrokeRows(ks, session_id) ==
  IF \E i \in 1..Len(ks) : ks[i].id = session_id
  THEN ks[CHOOSE i \in 1..Len(ks) : ks[i].id = session_id].rows
  ELSE <<>>

\* CASE WHEN dwell_time IS NULL OR dwell_time <= 0 THEN 0 ELSE dwell_time END
DwellOrZero(dwell_time) == IF IsNull(dwell_time) \/ Le(dwell_time, 0) THEN 0 ELSE dwell_time

\* CASE WHEN flight_time IS NULL OR flight_time < 0 THEN 0 ELSE flight_time END
FlightOrZero(flight_time) == IF IsNull(flight_time) \/ Lt(flight_time, 0) THEN 0 ELSE flight_time

\* current_keystrokes: rows with a dwell time only
CurrentRows(ks, session_id) ==
  SelectSeq(KeystrokeRows(ks, session_id), LAMBDA kd : ~IsNull(kd.dwell_time))

\* historical_sessions: DISTINCT ON (ks.id) ... ORDER BY ks.id ... LIMIT 5
RECURSIVE OrderById(_)
OrderById(ids) ==
  IF ids = {} THEN <<>>
  ELSE LET m == CHOOSE x \in ids : \A y \in ids : x <= y
       IN <<m>> \o OrderById(ids \ {m})

\* a slip that leaves the current session in
historical_sessions_with_current(ks, aa, user_id, session_id) ==
  LET joined == {ks[i].id : i \in {k \in 1..Len(ks) :
                    /\ ks[k].user_id = user_id
                    /\ \E a \in 1..Len(aa) :
                         aa[a].user_id = ks[k].user_id /\ aa[a].success = TRUE}}
  IN Limit(OrderById(joined), HistoryLimit)

historical_sessions(ks, aa, user_id, session_id) ==
  LET joined == {ks[i].id : i \in {k \in 1..Len(ks) :
                    /\ ks[k].user_id = user_id
                    /\ ks[k].id # session_id
                    /\ \E a \in 1..Len(aa) :
                         aa[a].user_id = ks[k].user_id /\ aa[a].success = TRUE}}
  IN Limit(OrderById(joined), HistoryLimit)

\* a slip that leaves the HAVING clause out
historical_keystrokes_any_length(ks, hs, pattern_length) ==
  SelectSeq(hs, LAMBDA id : Len(KeystrokeRows(ks, id)) > 0)

\* historical_keystrokes: INNER JOIN keystroke_data, GROUP BY session,
\* HAVING array_length(array_agg(kd.dwell_time), 1) = pattern_length
historical_keystrokes(ks, hs, pattern_length) ==
  SelectSeq(hs, LAMBDA id :
    /\ Len(KeystrokeRows(ks, id)) > 0
    /\ Len(KeystrokeRows(ks, id)) = pattern_length)

Dwells(rows) == [i \in 1..Len(rows) |-> DwellOrZero(rows[i].dwell_time)]

\* a slip that aggregates the flight times that are there
Flights_nonnull(rows) ==
  LET held == SelectSeq(rows, LAMBDA kd : ~IsNull(kd.flight_time))
  IN [i \in 1..Len(held) |-> FlightOrZero(held[i].flight_time)]

Flights(rows) == [i \in 1..Len(rows) |-> FlightOrZero(rows[i].flight_time)]

\* a slip that subtracts the distance from 1
Similarity_linear(sum, count) == Scale - Sqrt(sum \div count)

\* 1.0 / (1.0 + sqrt(sum / count)), sum in units of Scale * Scale
Similarity(sum, count) == (Scale * Scale) \div (Scale + Sqrt(sum \div count))

\* a slip that keeps the sign of the difference
Sq_signed(x) == x * Abs(x)

Sq(x) == x * x

\* one row of pattern_matches: the group of one historical pattern value h,
\* which GROUP BY historical_pattern makes of every copy of h in the array
PatternMatch(c, h, copies, pattern_length) ==
  LET idx == 1..(IF Len(c.rows) < Len(h.rows) THEN Len(c.rows) ELSE Len(h.rows))
      dwell_sq == [i \in idx |-> Sq(c.rows[i][1] - h.rows[i][1])]
      flight_sq == [i \in idx |-> Sq(c.rows[i][2] - h.rows[i][2])]
      both_sq == [i \in idx |-> dwell_sq[i] + flight_sq[i]]
  IN [dwell_match |-> Similarity(copies * SumSeq(dwell_sq), pattern_length),
      flight_match |-> Similarity(copies * SumSeq(flight_sq), pattern_length),
      total_match |-> Similarity(copies * SumSeq(both_sq), 2 * pattern_length)]

RECURSIVE SetToSeq(_)
SetToSeq(S) ==
  IF S = {} THEN <<>>
  ELSE LET x == CHOOSE y \in S : TRUE IN <<x>> \o SetToSeq(S \ {x})

pattern_matches(current_pattern, historical_patterns, pattern_length) ==
  LET groups == SetToSeq({historical_patterns[i] : i \in 1..Len(historical_patterns)})
      copies(h) == Cardinality({i \in 1..Len(historical_patterns) : historical_patterns[i] = h})
  IN [g \in 1..Len(groups) |->
        PatternMatch(current_pattern, groups[g], copies(groups[g]), pattern_length)]

\* the SELECT ... INTO match_details
match_details(pm) ==
  LET dwell == [i \in 1..Len(pm) |-> pm[i].dwell_match]
      flight == [i \in 1..Len(pm) |-> pm[i].flight_match]
      total == [i \in 1..Len(pm) |-> pm[i].total_match]
  IN [dwell_time_match |-> Coalesce(Avg(dwell), 0),
      flight_time_match |-> Coalesce(Avg(flight), 0),
      pattern_consistency |-> Coalesce(Stddev(total), 0),
      overall_confidence |->
        IF IsNull(Avg(total)) THEN 0
        ELSE (Avg(total) * (Scale - Coalesce(Stddev(total), 0))) \div Scale]

\* a slip that leaves the weights out
weighted_score_unweighted(md) ==
  ((md.dwell_time_match + md.flight_time_match + md.pattern_consistency)
     * md.overall_confidence) \div Scale

\* (dwell * 0.4 + flight * 0.4 + consistency * 0.2) * overall_confidence
weighted_score(md) ==
  (((md.dwell_time_match * 4 + md.flight_time_match * 4 + md.pattern_consistency * 2) \div 10)
     * md.overall_confidence) \div Scale

\* the result for a session without keystrokes
EmptySessionResult_neutral == [NoJson EXCEPT !.match_score = Scale \div 2, !.reason = TRUE]

EmptySessionResult == [NoJson EXCEPT !.match_score = 0, !.error = TRUE]

\* the score reported when there is nothing to compare with
NeutralScore == Scale \div 2

\* How the inner BEGIN ... EXCEPTION WHEN OTHERS block ends.  Its query
\* subscripts the aliases c and h of unnest(...) WITH ORDINALITY and unnests
\* the elements of historical_patterns again; whether PostgreSQL evaluates
\* these as the element-wise comparison written here or raises (a row alias
\* is not an array, unnest yields scalars) is decided by the server, and
\* WHEN OTHERS turns whatever is raised into the error result.
CalculationOutcomes == {"computed", "raised"}

\* The body of verify_keystroke_pattern, statement by statement: the threshold
\* is the value its SELECT returned, current the rows its SELECT returned, and
\* ks, aa the tables as the historical_sessions statement reads them.
verify_statements(adaptive_threshold, current, ks, aa, requesting_user, user_id, session_id, calculation) ==
  LET current_dwell_times == Dwells(current)
      current_flight_times == Flights(current)
      pattern_length == ArrayLength(current_dwell_times)
      hk == historical_keystrokes(ks, historical_sessions(ks, aa, user_id, session_id),
                                  pattern_length)
      historical_patterns ==
        [i \in 1..Len(hk) |->
           normalize_keystroke_pattern(Dwells(KeystrokeRows(ks, hk[i])),
                                       Flights(KeystrokeRows(ks, hk[i])))]
      current_pattern == normalize_keystroke_pattern(current_dwell_times, current_flight_times)
      md == match_details(pattern_matches(current_pattern, historical_patterns, pattern_length))
      match_score == weighted_score(md)
  IN IF requesting_user = NullUser \/ requesting_user # user_id THEN Raised
     ELSE IF IsNull(pattern_length) \/ pattern_length = 0
     THEN EmptySessionResult
     ELSE IF Len(historical_patterns) = 0
     THEN [NoJson EXCEPT !.match_score = NeutralScore,
                         !.threshold = adaptive_threshold,
                         !.reason = TRUE]
     ELSE IF calculation = "raised"
     THEN [NoJson EXCEPT !.match_score = 0, !.error = TRUE]
     ELSE [NoJson EXCEPT !.match_score = match_score,
                         !.threshold = adaptive_threshold,
                         !.dwell_time_match = md.dwell_time_match,
                         !.flight_time_match = md.flight_time_match,
                         !.pattern_consistency = md.pattern_consistency,
                         !.overall_confidence = md.overall_confidence,
                         !.patterns_compared = Len(historical_patterns),
                         !.pattern_length = pattern_length,
                         !.recommendation = recommendation(match_score, adaptive_threshold)]

\* one call whose statements all read the same tables
verify_keystroke_pattern(ks, aa, now, requesting_user, user_id, session_id, calculation) ==
  verify_statements(calculate_adaptive_threshold(aa, now, user_id, DefaultRecentAttempts),
                    CurrentRows(ks, session_id), ks, aa,
                    requesting_user, user_id, session_id, calculation)

---------------------------------------------------------------------------
(* Function-level specification: the similarities of normalized patterns,   *)
(* as the pattern_matches query of verify computes them                     *)

\* the dwell times of the series, in milliseconds
SampleTimes == {1, 2, 5}

\* the dwell series of n keystrokes
DwellSeries(n) == {d \in SeqsUpTo(SampleTimes, n) : Len(d) = n}

\* the flight series of n keystrokes: even gaps, or growing ones
FlightSeries(n) == {[i \in 1..n |-> 1], [i \in 1..n |-> i - 1]}

\* the series of a session of n keystrokes, as verify aggregates them
SessionSeries(n) ==
  [dwell_times : DwellSeries(n), flight_times : FlightSeries(n)]

PatternOf(ss) == normalize_keystroke_pattern(ss.dwell_times, ss.flight_times)

\* two sessions of the same length
InitSimilarity ==
  /\ PagesIdle
  /\ \E n \in 1..MaxArr :
       \E a \in SessionSeries(n), b \in SessionSeries(n) :
         input = [first |-> a, second |-> b]
  /\ output = NoOutput

ApplySimilarity ==
  /\ ~output.done
  /\ \E A \in {PatternOf(input.first)}, B \in {PatternOf(input.second)} :
     LET n == Len(A.rows)
     IN output' = [done |-> TRUE,
                   first |-> A, second |-> B,
                   ab |-> PatternMatch(A, B, 1, n),
                   ba |-> PatternMatch(B, A, 1, n),
                   aa |-> PatternMatch(A, A, 1, n)]
  /\ UNCHANGED <<pageVars, input>>

NextSimilarity == ApplySimilarity

SpecSimilarity == InitSimilarity /\ [][NextSimilarity]_vars

InUnitInterval(x) == x > 0 /\ x <= Scale

\* C17: each of the three similarities of a pattern with an identical copy
\* is exactly 1.0, and each similarity of two equal-length patterns lies in
\* (0, 1].
C17_SelfSimilarityIsOne ==
  output.done =>
    /\ output.aa.dwell_match = Scale
    /\ output.aa.flight_match = Scale
    /\ output.aa.total_match = Scale
    /\ output.first = output.second =>
         (output.ab.dwell_match = Scale /\ output.ab.flight_match = Scale
            /\ output.ab.total_match = Scale)
    /\ InUnitInterval(output.ab.dwell_match)
    /\ InUnitInterval(output.ab.flight_match)
    /\ InUnitInterval(output.ab.total_match)

\* C17: a pattern of three keystrokes beside a different one
C17_Witness ==
  /\ output.done
  /\ Len(output.first.rows) = 3
  /\ output.first.rows[1][1] # 0
  /\ output.aa.dwell_match = Scale
  /\ output.ab.dwell_match < Scale
  /\ output.ab.flight_match < Scale

\* C18: the dwell, flight and joint similarities of (A, B) equal those of
\* (B, A).
C18_SimilarityIsSymmetric ==
  output.done => output.ab = output.ba

\* C18: two patterns that differ in dwell and in flight
C18_Witness ==
  /\ output.done
  /\ output.first.rows # output.second.rows
  /\ output.ab.dwell_match < Scale
  /\ output.ab.flight_match < Scale
  /\ output.ab.flight_match # output.ab.dwell_match
  /\ output.ba.total_match < Scale

---------------------------------------------------------------------------
(* The calculation block of verify in units of one millionth, for scores    *)
(* that differ by less than 1 / Scale                                       *)

Micro == Scale * Scale

\* a * b / Micro for a, b >= 0, rounded down, by limbs of Scale
MulMicro(a, b) ==
  LET ah == a \div Scale
      al == a % Scale
      bh == b \div Scale
      bl == b % Scale
  IN ah * bh + (ah * bl + al * bh + (al * bl) \div Scale) \div Scale

\* y * y <= x * Micro, by limbs of Scale
SquareAtMost(y, x) ==
  LET yh == y \div Scale
      yl == y % Scale
      mid == 2 * yh * yl + (yl * yl) \div Scale
      high == yh * yh + mid \div Scale
  IN high < x \/ (high = x /\ mid % Scale = 0 /\ (yl * yl) % Scale = 0)

RECURSIVE SqrtMicroIter(_, _, _)
SqrtMicroIter(x, lo, hi) ==
  IF lo >= hi THEN lo
  ELSE LET mid == (lo + hi + 1) \div 2
       IN IF SquareAtMost(mid, x) THEN SqrtMicroIter(x, mid, hi)
          ELSE SqrtMicroIter(x, lo, mid - 1)

\* sqrt(x) for x in millionths, in millionths, rounded down
SqrtMicro(x) == SqrtMicroIter(x, 0, 8 * Micro)

RECURSIVE LongDivision(_, _, _, _)
LongDivision(q, r, b, digits) ==
  IF digits = 0 THEN q
  ELSE LongDivision(q * 10 + (r * 10) \div b, (r * 10) % b, b, digits - 1)

\* a / b in millionths for 0 <= a <= b, rounded down
DivMicro(a, b) == LongDivision(a \div b, a % b, b, 6)

\* 1.0 / (1.0 + sqrt(sum / count)); sum is in units of Scale * Scale = Micro
SimilarityMicro(sum, count) == DivMicro(Micro, Micro + SqrtMicro(sum \div count))

PatternMatchMicro(c, h, copies, pattern_length) ==
  LET idx == 1..(IF Len(c.rows) < Len(h.rows) THEN Len(c.rows) ELSE Len(h.rows))
      dwell_sq == [i \in idx |-> Sq(c.rows[i][1] - h.rows[i][1])]
      flight_sq == [i \in idx |-> Sq(c.rows[i][2] - h.rows[i][2])]
      both_sq == [i \in idx |-> dwell_sq[i] + flight_sq[i]]
  IN [dwell_match |-> SimilarityMicro(copies * SumSeq(dwell_sq), pattern_length),
      flight_match |-> SimilarityMicro(copies * SumSeq(flight_sq), pattern_length),
      total_match |-> SimilarityMicro(copies * SumSeq(both_sq), 2 * pattern_length)]

pattern_matches_micro(current_pattern, historical_patterns, pattern_length) ==
  LET groups == SetToSeq({historical_patterns[i] : i \in 1..Len(historical_patterns)})
      copies(h) == Cardinality({i \in 1..Len(historical_patterns) : historical_patterns[i] = h})
  IN [g \in 1..Len(groups) |->
        PatternMatchMicro(current_pattern, groups[g], copies(groups[g]), pattern_length)]

\* stddev() of similarities in millionths
StddevMicro(s) ==
  LET m == Avg(s)
      sq == [i \in 1..Len(s) |-> MulMicro(Abs(s[i] - m), Abs(s[i] - m))]
  IN IF Len(s) < 2 THEN NULL ELSE SqrtMicro(SumSeq(sq) \div (Len(s) - 1))

match_details_micro(pm) ==
  LET dwell == [i \in 1..Len(pm) |-> pm[i].dwell_match]
      flight == [i \in 1..Len(pm) |-> pm[i].flight_match]
      total == [i \in 1..Len(pm) |-> pm[i].total_match]
  IN [dwell_time_match |-> Coalesce(Avg(dwell), 0),
      flight_time_match |-> Coalesce(Avg(flight), 0),
      pattern_consistency |-> Coalesce(StddevMicro(total), 0),
      overall_confidence |->
        IF IsNull(Avg(total)) THEN 0
        ELSE MulMicro(Avg(total), Micro - Coalesce(StddevMicro(total), 0))]

weighted_score_micro(md) ==
  MulMicro((md.dwell_time_match * 4 + md.flight_time_match * 4
              + md.pattern_consistency * 2) \div 10,
           md.overall_confidence)

\* the rows of pattern_matches for a current pattern
MatchesOf(current_pattern, historical_patterns) ==
  pattern_matches_micro(current_pattern, historical_patterns, Len(current_pattern.rows))

\* match_score, from the rows of pattern_matches
MatchScoreOf(matches) == weighted_score_micro(match_details_micro(matches))

---------------------------------------------------------------------------
(* Function-level specification: the score of two current sessions against  *)
(* one history                                                              *)

\* sessions typed with dwell times that never shrink, or never grow
SteadyTimes == SampleTimes \cup {6}
Rising(n) ==
  {d \in SeqsUpTo(SteadyTimes, n) : Len(d) = n /\ \A i \in 1..(n - 1) : d[i] <= d[i + 1]}
Falling(n) ==
  {d \in SeqsUpTo(SteadyTimes, n) : Len(d) = n /\ \A i \in 1..(n - 1) : d[i] >= d[i + 1]}

EvenFlights(d) == [dwell_times |-> d, flight_times |-> [i \in 1..Len(d) |-> 1]]

\* a history of one session typed as the first current session, followed by
\* 1 .. HistoryLimit - 1 sessions typed alike
InitMonotone ==
  /\ PagesIdle
  /\ \E a \in Rising(MaxArr), b \in Rising(MaxArr), h \in Falling(MaxArr),
        copies \in 1..(HistoryLimit - 1) :
       input = [first |-> EvenFlights(a), second |-> EvenFlights(b),
                history |-> <<EvenFlights(a)>> \o [k \in 1..copies |-> EvenFlights(h)]]
  /\ output = NoOutput

ApplyMonotone ==
  /\ ~output.done
  /\ \E A \in {PatternOf(input.first)}, B \in {PatternOf(input.second)},
        H \in {[k \in 1..Len(input.history) |-> PatternOf(input.history[k])]} :
       \E first_matches \in {MatchesOf(A, H)}, second_matches \in {MatchesOf(B, H)} :
         output' = [done |-> TRUE,
                    first |-> A, second |-> B, history |-> H,
                    score_first |-> MatchScoreOf(first_matches),
                    score_second |-> MatchScoreOf(second_matches)]
  /\ UNCHANGED <<pageVars, input>>

NextMonotone == ApplyMonotone

SpecMonotone == InitMonotone /\ [][NextMonotone]_vars

\* the squared Euclidean distance of two patterns on one feature
SqDistance(c, h, feature) ==
  SumSeq([i \in 1..Len(c.rows) |-> Sq(c.rows[i][feature] - h.rows[i][feature])])

\* c2 is at least as far from h as c1 is: on dwell, on flight and jointly
AtLeastAsFar(c2, c1, h) ==
  /\ SqDistance(c2, h, 1) >= SqDistance(c1, h, 1)
  /\ SqDistance(c2, h, 2) >= SqDistance(c1, h, 2)
  /\ SqDistance(c2, h, 1) + SqDistance(c2, h, 2)
       >= SqDistance(c1, h, 1) + SqDistance(c1, h, 2)

FartherFromAll ==
  \A k \in 1..Len(output.history) :
    AtLeastAsFar(output.second, output.first, output.history[k])

---------------------------------------------------------------------------
(* Function-level specification: the history verify selects and compares *)

\* the sessions whose patterns verify aggregates into historical_patterns
compared_sessions(ks, aa, user_id, session_id) ==
  historical_keystrokes(ks, historical_sessions(ks, aa, user_id, session_id),
                        ArrayLength(Dwells(CurrentRows(ks, session_id))))

\* a stored session of len samples: who typed it and how many keystrokes
SessionKinds == [user_id : Users, len : 1..MaxLen]

SampleRows(len) == [k \in 1..len |-> [dwell_time |-> 1, flight_time |-> 0]]

\* a table two rows longer than the LIMIT: j sessions of kind a, then kind b
LongTable == HistoryLimit + 2
TableBlocks ==
  {[i \in 1..LongTable |-> IF i <= j THEN a ELSE b] :
      a \in SessionKinds, b \in SessionKinds, j \in 0..LongTable}

\* keystroke_sessions in insertion order; the ids (uuids) are in that order
\* or in the opposite one
Keyed(kinds, order) ==
  [i \in 1..Len(kinds) |->
     [id |-> IF order = "ascending" THEN i ELSE Len(kinds) + 1 - i,
      user_id |-> kinds[i].user_id,
      rows |-> SampleRows(kinds[i].len)]]

\* auth_attempts of the histories: none, a success, a failure, another user's
\* for_session is no column: it notes the session of the login that
\* inserted the row (NULL: not noted)
AttemptRow(u, ok, at) ==
  [user_id |-> u, success |-> ok, keystroke_match |-> FALSE,
   match_score |-> NULL, attempted_at |-> at, for_session |-> NULL]

\* every session is a login that recorded its successful attempt when made
LoginAttempts(ks) ==
  [i \in 1..Len(ks) |->
     [AttemptRow(ks[i].user_id, TRUE, i) EXCEPT !.for_session = ks[i].id]]

AttemptTables ==
  {<<>>, <<AttemptRow("u1", TRUE, 1)>>, <<AttemptRow("u1", FALSE, 1)>>,
   <<AttemptRow("u2", TRUE, 1)>>,
   <<AttemptRow("u1", FALSE, 1), AttemptRow("u1", TRUE, 2)>>}

InitHistory ==
  /\ PagesIdle
  /\ input \in {[sessions |-> Keyed(t, order),
                 attempts |-> IF logins THEN LoginAttempts(Keyed(t, order)) ELSE aa,
                 user_id |-> "u1", session_id |-> c] :
                  t \in SeqsUpTo(SessionKinds, MaxSessions) \cup TableBlocks,
                  order \in {"ascending", "descending"},
                  aa \in AttemptTables, logins \in BOOLEAN,
                  c \in 1..LongTable}
  /\ output = NoOutput

ApplyHistory ==
  /\ ~output.done
  /\ \E calculation \in CalculationOutcomes, requesting_user \in Users \cup {NullUser} :
       output' = [done |-> TRUE,
                  requesting_user |-> requesting_user,
                  calculation |-> calculation,
                  compared |-> compared_sessions(input.sessions, input.attempts,
                                                 input.user_id, input.session_id),
                  result |-> verify_keystroke_pattern(
                               input.sessions, input.attempts, Len(input.attempts) + 1,
                               requesting_user, input.user_id, input.session_id,
                               calculation)]
  /\ UNCHANGED <<pageVars, input>>

NextHistory == ApplyHistory

SpecHistory == InitHistory /\ [][NextHistory]_vars

\* the stored session with an id
SessionOf(ks, id) == ks[CHOOSE i \in 1..Len(ks) : ks[i].id = id]

\* the sample length n of the current session
CurrentLength == Len(KeystrokeRows(input.sessions, input.session_id))

Compared == {output.compared[k] : k \in 1..Len(output.compared)}

\* C13: every session verify compares against belongs to the subject, is not
\* the current session and has the current sample length; at most 5 sessions
\* are compared, each once, and the result reports their number.
C13_ComparedAreOwnSameLength ==
  output.done =>
    /\ \A id \in Compared :
         /\ \E i \in 1..Len(input.sessions) : input.sessions[i].id = id
         /\ SessionOf(input.sessions, id).user_id = input.user_id
         /\ id # input.session_id
         /\ Len(SessionOf(input.sessions, id).rows) = CurrentLength
    /\ Len(output.compared) <= 5
    /\ Cardinality(Compared) = Len(output.compared)
    /\ output.result.patterns_compared # NULL
         => output.result.patterns_compared = Len(output.compared)
    /\ (output.result.reason \/ output.result.error) => output.result.patterns_compared = NULL

\* C13: a scored comparison with two sessions, made while the subject has
\* sessions of another length too
C13_Witness ==
  /\ output.done
  /\ output.result.patterns_compared = 2
  /\ Len(output.compared) = 2
  /\ \E i \in 1..Len(input.sessions) :
       /\ input.sessions[i].user_id = input.user_id
       /\ Len(input.sessions[i].rows) # CurrentLength

\* the subject has a successful attempt on record
SubjectSucceeded ==
  \E a \in 1..Len(input.attempts) :
    input.attempts[a].user_id = input.user_id /\ input.attempts[a].success

\* the sessions that qualify as history: the subject's, not the current one,
\* successful, of the current sample length
Qualifying ==
  {input.sessions[i].id : i \in {k \in 1..Len(input.sessions) :
     /\ SubjectSucceeded
     /\ input.sessions[k].user_id = input.user_id
     /\ input.sessions[k].id # input.session_id
     /\ CurrentLength >= 1
     /\ Len(input.sessions[k].rows) = CurrentLength}}

\* the subject's other sessions of a different length
OtherLength ==
  {input.sessions[i].id : i \in {k \in 1..Len(input.sessions) :
     /\ input.sessions[k].user_id = input.user_id
     /\ input.sessions[k].id # input.session_id
     /\ Len(input.sessions[k].rows) # CurrentLength}}

\* C14: if q sessions qualify as history, verify compares against exactly
\* min(q, 5) of them, whatever sessions of another length the subject has.
C14_ComparesMinOfQualifying ==
  output.done =>
    Len(output.compared) =
      (IF Cardinality(Qualifying) < 5 THEN Cardinality(Qualifying) ELSE 5)

\* C14: one session qualifies beside five of another length
C14_Witness ==
  /\ output.done
  /\ Cardinality(Qualifying) = 1
  /\ Cardinality(OtherLength) = 5

\* when the login that created a session recorded its successful attempt
\* (0: it recorded none)
LastSuccessOf(id) ==
  LET at == {input.attempts[a].attempted_at : a \in {k \in 1..Len(input.attempts) :
               input.attempts[k].success /\ input.attempts[k].for_session = id}}
  IN IF at = {} THEN 0 ELSE CHOOSE t \in at : \A u \in at : u <= t

\* C15: when more than 5 sessions qualify, no unselected qualifying session
\* has a more recent successful attempt than a selected one.
C15_SelectsMostRecent ==
  (output.done /\ Cardinality(Qualifying) > 5) =>
    \A chosen \in Compared, left \in Qualifying \ Compared :
      LastSuccessOf(left) <= LastSuccessOf(chosen)

\* C15: six sessions qualify, each with its own successful attempt
C15_Witness ==
  /\ output.done
  /\ Cardinality(Qualifying) = 6
  /\ Len(output.compared) = 5
  /\ \A id \in Qualifying : LastSuccessOf(id) > 0

---------------------------------------------------------------------------
(* calculate_keystroke_times, the BEFORE INSERT trigger of keystroke_data *)

\* new_row: the row as sent by the client; earlier: the rows of the session
\* whose created_at is below the new row's
calculate_keystroke_times(new_row, earlier) ==
  [dwell_time |-> new_row.release_time - new_row.press_time,
   flight_time |-> IF Len(earlier) > 0
                   THEN new_row.press_time - earlier[Len(earlier)].release_time
                   ELSE new_row.flight_time]

\* INSERT of several rows in one statement.  The rows get their created_at
\* from the column default: one timestamp for the statement ("same"), or
\* one per row ("distinct").
InsertRows(new_rows, stamps) ==
  [i \in 1..Len(new_rows) |->
     calculate_keystroke_times(new_rows[i],
                               IF stamps = "distinct" THEN SubSeq(new_rows, 1, i - 1) ELSE <<>>)]

---------------------------------------------------------------------------
(* What a user types: KeystrokeData, without the key *)

DwellChoices == {1, 2}
GapChoices == {1}
Strokes == [dwell : DwellChoices, gap : GapChoices]

\* press and release times of the strokes, the first key pressed at time 1
RECURSIVE Timeline(_, _)
Timeline(strokes, last_release) ==
  IF strokes = <<>> THEN <<>>
  ELSE LET press == last_release + Head(strokes).gap
       IN <<[press_time |-> press, release_time |-> press + Head(strokes).dwell]>>
          \o Timeline(Tail(strokes), press + Head(strokes).dwell)

Typings ==
  {Timeline(s, 0) : s \in {t \in SeqsUpTo(Strokes, MaxLen) : t = <<>> \/ t[1].gap = 1}}

---------------------------------------------------------------------------
(* LoginPage.debouncedLogin and SignupPage.debouncedSignup, step by step *)

Clock(aa) == Len(aa) + 1

\* throw new Error(message): the catch block shows it, the run ends
Fail(message) ==
  /\ pc' = "idle"
  /\ run' = [IdleRun EXCEPT !.error = TRUE]

NewSessionId(ks) == Len(ks) + 1

\* handleSubmit: every stroke is released; then debouncedLogin starts
LoginSubmit(u, typed) ==
  /\ pc = "idle"
  /\ Len(sessions) < MaxSessions
  /\ \A i \in 1..Len(typed) : typed[i].release_time # 0
  /\ pc' = "signin"
  /\ run' = [IdleRun EXCEPT !.flow = "login", !.user = u, !.keystrokes = typed]
  /\ page' = "login"
  /\ UNCHANGED <<sessions, attempts, accounts, input, output>>

\* supabase.auth.signInWithPassword
LoginSignIn ==
  /\ pc = "signin"
  /\ \E ok \in BOOLEAN :
       IF ok /\ run.user \in accounts
       THEN pc' = "session" /\ UNCHANGED run
       ELSE Fail("Invalid email or password")
  /\ UNCHANGED <<sessions, attempts, page, accounts, input, output>>

\* insert into keystroke_sessions ... select().single()
LoginInsertSession ==
  /\ pc = "session"
  /\ \E ok \in BOOLEAN :
       IF ok
       THEN /\ sessions' = Append(sessions, [id |-> NewSessionId(sessions),
                                             user_id |-> run.user, rows |-> <<>>])
            /\ run' = [run EXCEPT !.session_id = NewSessionId(sessions)]
            /\ pc' = "keystrokes"
       ELSE Fail("Failed to create session") /\ UNCHANGED sessions
  /\ UNCHANGED <<attempts, page, accounts, input, output>>

\* the rows the login page sends: dwell_time computed, flight_time null
LoginRows(typed) ==
  [i \in 1..Len(typed) |->
     [press_time |-> typed[i].press_time, release_time |-> typed[i].release_time,
      dwell_time |-> typed[i].release_time - typed[i].press_time, flight_time |-> NULL]]

StoreRows(ks, session_id, rows) ==
  [i \in 1..Len(ks) |-> IF ks[i].id = session_id THEN [ks[i] EXCEPT !.rows = rows] ELSE ks[i]]

\* insert into keystroke_data
LoginInsertKeystrokes ==
  /\ pc = "keystrokes"
  /\ \E ok \in BOOLEAN, stamps \in {"same", "distinct"} :
       IF ok
       THEN /\ sessions' = StoreRows(sessions, run.session_id,
                                     InsertRows(LoginRows(run.keystrokes), stamps))
            /\ pc' = "verify"
            /\ UNCHANGED run
       ELSE Fail("Failed to save keystroke data") /\ UNCHANGED sessions
  /\ UNCHANGED <<attempts, page, accounts, input, output>>

\* supabase.rpc('verify_keystroke_pattern'): auth.uid() is the signed-in user,
\* or null when the token is no longer valid
\* a slip in which the function records the attempt itself
LoginVerify_recording ==
  /\ pc = "verify"
  /\ \E requesting_user \in {run.user, NullUser}, calculation \in CalculationOutcomes :
       run' = [run EXCEPT !.uid = requesting_user,
                          !.verification =
                             verify_keystroke_pattern(sessions, attempts, Clock(attempts),
                                                      requesting_user, run.user,
                                                      run.session_id, calculation)]
  /\ attempts' = Append(attempts,
       [user_id |-> run.user, success |-> TRUE, keystroke_match |-> FALSE,
        match_score |-> NULL, attempted_at |-> Clock(attempts),
        for_session |-> run.session_id])
  /\ pc' = "verified"
  /\ UNCHANGED <<sessions, page, accounts, input, output>>

LoginVerify ==
  /\ pc = "verify"
  /\ \E requesting_user \in {run.user, NullUser}, calculation \in CalculationOutcomes :
       run' = [run EXCEPT !.uid = requesting_user,
                          !.verification =
                             verify_keystroke_pattern(sessions, attempts, Clock(attempts),
                                                      requesting_user, run.user,
                                                      run.session_id, calculation)]
  /\ pc' = "verified"
  /\ UNCHANGED <<sessions, attempts, page, accounts, input, output>>

\* a slip that goes on without looking at verificationError
LoginCheckVerification_unchecked ==
  /\ pc = "verified"
  /\ pc' = "attempt"
  /\ UNCHANGED <<sessions, attempts, run, page, accounts, input, output>>

\* if (verificationError) throw ...; const matchScore = verificationData.match_score
LoginCheckVerification ==
  /\ pc = "verified"
  /\ IF run.verification.raised
     THEN Fail("Failed to verify keystroke pattern")
     ELSE pc' = "attempt" /\ UNCHANGED run
  /\ UNCHANGED <<sessions, attempts, page, accounts, input, output>>

AcceptScore == (7 * Scale) \div 10   \* matchScore >= 0.7

\* insert into auth_attempts; a failure is only logged.  for_session is no
\* column of the table: it notes the session the inserting login had created.
LoginRecordAttempt ==
  /\ pc = "attempt"
  /\ \E ok \in BOOLEAN :
       IF ok
       THEN attempts' = Append(attempts,
              [user_id |-> run.user, success |-> TRUE,
               keystroke_match |-> run.verification.match_score >= AcceptScore,
               match_score |-> NULL,
               attempted_at |-> Clock(attempts),
               for_session |-> run.session_id])
       ELSE UNCHANGED attempts
  /\ pc' = "navigate"
  /\ UNCHANGED <<sessions, run, page, accounts, input, output>>

\* navigate('/dashboard') or navigate('/otp')
LoginNavigate ==
  /\ pc = "navigate"
  /\ page' = IF run.verification.match_score >= AcceptScore THEN "dashboard" ELSE "otp"
  /\ pc' = "idle"
  /\ run' = IdleRun
  /\ UNCHANGED <<sessions, attempts, accounts, input, output>>

\* handleSignup: the typing test is complete (TYPING_TEST has the longest length)
SignupSubmit(u, typed) ==
  /\ pc = "idle"
  /\ Len(sessions) < MaxSessions
  /\ Len(typed) = MaxLen
  /\ pc' = "su_auth"
  /\ run' = [IdleRun EXCEPT !.flow = "signup", !.user = u, !.keystrokes = typed]
  /\ page' = "signup"
  /\ UNCHANGED <<sessions, attempts, accounts, input, output>>

\* checkEmailExists, supabase.auth.signUp and the profile insert
SignupCreateUser ==
  /\ pc = "su_auth"
  /\ \E ok \in BOOLEAN :
       IF ok /\ run.user \notin accounts
       THEN /\ accounts' = accounts \cup {run.user}
            /\ pc' = "su_session"
            /\ UNCHANGED run
       ELSE Fail("This email is already registered") /\ UNCHANGED accounts
  /\ UNCHANGED <<sessions, attempts, page, input, output>>

SignupInsertSession ==
  /\ pc = "su_session"
  /\ \E ok \in BOOLEAN :
       IF ok
       THEN /\ sessions' = Append(sessions, [id |-> NewSessionId(sessions),
                                             user_id |-> run.user, rows |-> <<>>])
            /\ run' = [run EXCEPT !.session_id = NewSessionId(sessions)]
            /\ pc' = "su_keystrokes"
       ELSE Fail("signup failed") /\ UNCHANGED sessions
  /\ UNCHANGED <<attempts, page, accounts, input, output>>

\* the rows the signup page sends: no dwell_time, no flight_time
SignupRows(typed) ==
  [i \in 1..Len(typed) |->
     [press_time |-> typed[i].press_time, release_time |-> typed[i].release_time,
      dwell_time |-> NULL, flight_time |-> NULL]]

\* insert into keystroke_data, then navigate('/login')
SignupInsertKeystrokes ==
  /\ pc = "su_keystrokes"
  /\ \E ok \in BOOLEAN, stamps \in {"same", "distinct"} :
       IF ok
       THEN /\ sessions' = StoreRows(sessions, run.session_id,
                                     InsertRows(SignupRows(run.keystrokes), stamps))
            /\ pc' = "idle"
            /\ run' = IdleRun
            /\ page' = "login"
       ELSE Fail("signup failed") /\ UNCHANGED <<sessions, page>>
  /\ UNCHANGED <<attempts, accounts, input, output>>

Init ==
  /\ PagesIdle
  /\ input = [none |-> TRUE]
  /\ output = NoOutput

Next ==
  \/ \E u \in Users, typed \in Typings : LoginSubmit(u, typed)
  \/ LoginSignIn
  \/ LoginInsertSession
  \/ LoginInsertKeystrokes
  \/ LoginVerify
  \/ LoginCheckVerification
  \/ LoginRecordAttempt
  \/ LoginNavigate
  \/ \E u \in Users, typed \in Typings : SignupSubmit(u, typed)
  \/ SignupCreateUser
  \/ SignupInsertSession
  \/ SignupInsertKeystrokes

Spec == Init /\ [][Next]_vars

---------------------------------------------------------------------------
(* Properties of the login run *)

\* verify has returned a JSON result to the page (it did not raise)
Returned == pc \in {"verified", "attempt", "navigate"} /\ ~run.verification.raised

\* the keystroke rows of the session the run verifies
CurrentSamples == KeystrokeRows(sessions, run.session_id)

HasSuccessfulAttempt(u) ==
  \E a \in 1..Len(attempts) : attempts[a].user_id = u /\ attempts[a].success

\* the other sessions of the subject that have the current sample length
SameLengthHistory ==
  {i \in 1..Len(sessions) :
     /\ sessions[i].user_id = run.user
     /\ sessions[i].id # run.session_id
     /\ Len(sessions[i].rows) = Len(CurrentSamples)}

\* C1: every result verify returns carries a match_score in [0, 1].
C1_MatchScoreInUnitInterval ==
  Returned =>
    /\ run.verification.match_score # NULL
    /\ run.verification.match_score >= 0
    /\ run.verification.match_score <= Scale

\* a fully scored result over two historical patterns that disagree
C1_Witness ==
  /\ Returned
  /\ run.verification.patterns_compared = 2
  /\ run.verification.pattern_consistency > 0
  /\ run.verification.match_score > 0

C4_NoAttemptAfterFailedVerify ==
  [][Len(attempts') > Len(attempts)
       => (~run.verification.raised /\ ~run.verification.error)]_vars

\* C5: a subject without prior successful sessions and attempts, verifying a
\* non-empty session, gets match_score 0.5 and threshold 0.7, from which the
\* decision rule derives reject.
C5_FirstCheckIsNeutral ==
  (pc = "verified" /\ run.uid = run.user
     /\ Len(CurrentSamples) > 0 /\ ~HasSuccessfulAttempt(run.user))
    => /\ ~run.verification.raised
       /\ run.verification.match_score * 2 = Scale
       /\ run.verification.threshold * 10 = 7 * Scale
       /\ recommendation(run.verification.match_score, run.verification.threshold)
            = "reject"

C5_Witness ==
  /\ pc = "verified"
  /\ run.uid = run.user
  /\ Len(CurrentSamples) > 0
  /\ ~HasSuccessfulAttempt(run.user)
  /\ run.verification.match_score * 2 = Scale

\* the current values equal those of the one historical session compared
IdenticalToSingleHistory ==
  /\ pc = "verified"
  /\ ~run.verification.raised
  /\ run.verification.patterns_compared = 1
  /\ Cardinality(SameLengthHistory) = 1
  /\ \A i \in SameLengthHistory : sessions[i].rows = CurrentSamples

\* C6: then the three aggregates are 1.0, match_score is 1.0 and
\* the recommendation is accept for every threshold up to 1.0.
C6_IdenticalScoresOne ==
  IdenticalToSingleHistory
    => /\ run.verification.dwell_time_match = Scale
       /\ run.verification.flight_time_match = Scale
       /\ run.verification.overall_confidence = Scale
       /\ run.verification.match_score = Scale
       /\ \A t \in Grid : recommendation(run.verification.match_score, t) = "accept"

\* C6, what a completed calculation reports instead: the three aggregates
\* are 1.0, pattern_consistency is 0, match_score is 0.8, and the
\* recommendation is accept for every threshold up to 0.8, the reported one
\* included.
C6_IdenticalScoresPointEight ==
  IdenticalToSingleHistory
    => /\ run.verification.dwell_time_match = Scale
       /\ run.verification.flight_time_match = Scale
       /\ run.verification.overall_confidence = Scale
       /\ run.verification.pattern_consistency = 0
       /\ run.verification.match_score * 10 = 8 * Scale
       /\ run.verification.recommendation = "accept"
       /\ \A t \in Grid :
            t * 10 <= 8 * Scale
              => recommendation(run.verification.match_score, t) = "accept"

\* C6: two keystrokes with different dwell times, typed again the same way
C6_Witness ==
  /\ IdenticalToSingleHistory
  /\ Len(CurrentSamples) = 2
  /\ CurrentSamples[1].dwell_time # CurrentSamples[2].dwell_time
  /\ run.verification.match_score * 10 = 8 * Scale

\* C7: with a non-empty current session and no usable history (no successful
\* history, or only sessions of another length) verify returns the degraded
\* outcome: match_score 0.5 and a reason, no failure.
C7_NoHistoryIsDegraded ==
  (pc = "verified" /\ run.uid = run.user /\ Len(CurrentSamples) > 0
     /\ (~HasSuccessfulAttempt(run.user) \/ SameLengthHistory = {}))
    => /\ ~run.verification.raised
       /\ ~run.verification.error
       /\ run.verification.reason
       /\ run.verification.match_score * 2 = Scale

\* the subject has successful history, all of it of another length
C7_Witness ==
  /\ pc = "verified"
  /\ run.uid = run.user
  /\ Len(CurrentSamples) = 2
  /\ HasSuccessfulAttempt(run.user)
  /\ SameLengthHistory = {}
  /\ \E i \in 1..Len(sessions) :
       sessions[i].user_id = run.user /\ Len(sessions[i].rows) = 1
  /\ run.verification.reason

\* the attempts recorded by the login that created a session
AttemptsOf(id) == {a \in 1..Len(attempts) : attempts[a].for_session = id}

\* the sessions the verify call of the run compared against
RunCompared ==
  LET hk == compared_sessions(sessions, attempts, run.user, run.session_id)
  IN {hk[k] : k \in 1..Len(hk)}

\* C16: every historical session selected for comparison is a prior
\* successful session, linked to an AuthAttempt with success = true; a session
\* for which no attempt was recorded is never used as history.
C16_HistoryIsSuccessfulSessions ==
  (pc = "verified" /\ run.uid = run.user) =>
    \A id \in RunCompared :
      \E a \in AttemptsOf(id) : attempts[a].success

\* C16: a verify call that compared against history
C16_Witness ==
  /\ pc = "verified"
  /\ run.uid = run.user
  /\ RunCompared # {}
  /\ run.verification.patterns_compared = Cardinality(RunCompared)


\* C20: verify never mutates state: on every path the stored sessions with
\* their keystroke samples and the auth attempts are the same after the call
\* as before it; an attempt is recorded only by the caller's own insert.
C20_VerifyMutatesNothing ==
  [][/\ pc = "verify" => (sessions' = sessions /\ attempts' = attempts)
     /\ attempts' # attempts => (pc = "attempt" /\ pc' = "navigate")]_vars

\* C20: verify returned an outcome computed from stored sessions and attempts
C20_Witness ==
  /\ Returned
  /\ ~run.verification.error
  /\ run.verification.patterns_compared >= 1
  /\ attempts # <<>>
  /\ Len(sessions) >= 2


\* the rows a signup or login run has just stored for its session
StoredNow == KeystrokeRows(sessions', run.session_id)

\* C23: for every session stored by signup or login with k >= 1 keystrokes,
\* the stored samples have dwell_time[i] = release_time[i] - press_time[i]
\* for all i, flight_time[i] = press_time[i] - release_time[i-1] for every
\* i after the first, and the first sample's flight time is treated as 0.
C23_StoredDwellAndFlight ==
  [][(pc \in {"keystrokes", "su_keystrokes"} /\ sessions' # sessions) =>
       /\ Len(StoredNow) = Len(run.keystrokes)
       /\ \A i \in 1..Len(StoredNow) :
            /\ StoredNow[i].dwell_time
                 = run.keystrokes[i].release_time - run.keystrokes[i].press_time
            /\ i > 1 => StoredNow[i].flight_time
                          = run.keystrokes[i].press_time - run.keystrokes[i - 1].release_time
            /\ i = 1 => FlightOrZero(StoredNow[i].flight_time) = 0]_vars

\* C23: a stored session of two keystrokes whose second flight time is null
C23_Witness ==
  \E s \in 1..Len(sessions) :
    /\ Len(sessions[s].rows) = 2
    /\ sessions[s].rows[1].dwell_time = 1
    /\ sessions[s].rows[2].flight_time = NULL

\* the result of a call that found nothing to compare the session with
Degraded == Returned /\ run.verification.reason

\* C24: a degraded result (insufficient history) is a full outcome: it
\* carries match_score, threshold, the details and a recommendation that is
\* accept, challenge or reject, like a fully scored result.
C24_DegradedIsFullOutcome ==
  Degraded =>
    /\ run.verification.match_score \in 0..Scale
    /\ run.verification.threshold \in 0..Scale
    /\ run.verification.recommendation \in {"accept", "challenge", "reject"}
    /\ run.verification.patterns_compared # NULL
    /\ run.verification.pattern_length # NULL
    /\ run.verification.overall_confidence # NULL

\* C24: a degraded result with score 0.5 and threshold 0.7 has been returned
C24_Witness ==
  /\ Degraded
  /\ pc = "attempt"
  /\ run.verification.match_score = NeutralScore
  /\ run.verification.threshold * 10 = 7 * Scale

\* C25: each verification call that returned an outcome produces exactly one
\* attempt of that subject carrying the call's match_score, which later
\* threshold estimates read; recorded attempts are never changed.
C25_OneScoredAttemptPerCall ==
  [][/\ (pc = "attempt" /\ pc' = "navigate") =>
          /\ Len(attempts') = Len(attempts) + 1
          /\ attempts'[Len(attempts')].user_id = run.user
          /\ attempts'[Len(attempts')].match_score = run.verification.match_score
     /\ \A i \in 1..Len(attempts) :
          i <= Len(attempts') /\ attempts'[i] = attempts[i]]_vars

\* C25: a second login of a subject has recorded its attempt
C25_Witness ==
  /\ pc = "navigate"
  /\ Len(attempts) >= 2
  /\ attempts[Len(attempts)].for_session = run.session_id
  /\ attempts[1].user_id = run.user
  /\ run.verification.match_score >= 0

\* the two series verify aggregates from these rows have one entry per row
\* of the stored session
OneEntryPerRow(rows, session_id) ==
  /\ Len(Dwells(rows)) = Len(Flights(rows))
  /\ Len(Dwells(rows)) = Len(KeystrokeRows(sessions, session_id))

LoginOrder ==
  {<<"idle", "signin">>, <<"signin", "session">>, <<"session", "keystrokes">>,
   <<"keystrokes", "verify">>, <<"verify", "verified">>, <<"verified", "attempt">>,
   <<"attempt", "navigate">>, <<"navigate", "idle">>}

LoginFailures ==
  {<<"signin", "idle">>, <<"session", "idle">>, <<"keystrokes", "idle">>,
   <<"verified", "idle">>}

\* C30: in every login run the steps happen in the order sign-in, session
\* insert, keystroke insert, verify, attempt insert, navigation; a failure of
\* a step before the attempt insert stops the run with an error and without
\* navigation; the user is sent to the dashboard if and only if the returned
\* match_score is >= 0.7 and to the OTP page otherwise, and the recorded
\* attempt's keystroke_match is true exactly when match_score >= 0.7.
C30_LoginRunInOrder ==
  [][(run.flow = "login" \/ run'.flow = "login") =>
       /\ <<pc, pc'>> \in LoginOrder \cup LoginFailures
       /\ (pc = "verified" /\ run.verification.raised) => pc' = "idle"
       /\ <<pc, pc'>> \in LoginFailures =>
            run'.error /\ page' = page /\ attempts' = attempts
       /\ sessions' # sessions => pc \in {"session", "keystrokes"}
       /\ <<pc, pc'>> = <<"session", "keystrokes">> => Len(sessions') = Len(sessions) + 1
       /\ <<pc, pc'>> = <<"keystrokes", "verify">> =>
            Len(KeystrokeRows(sessions', run.session_id)) = Len(run.keystrokes)
       /\ attempts' # attempts =>
            /\ pc = "attempt"
            /\ attempts'[Len(attempts')].keystroke_match
                 = (run.verification.match_score * 10 >= 7 * Scale)
       /\ pc = "navigate" =>
            /\ ~run.verification.raised
            /\ page' = "dashboard" <=> run.verification.match_score * 10 >= 7 * Scale
            /\ page' = "otp" <=> run.verification.match_score * 10 < 7 * Scale
       /\ pc # "navigate" => page' \in {page, "login"}]_vars

\* C30: a login has ended on the dashboard and its attempt says keystroke_match
C30_Witness ==
  /\ pc = "idle"
  /\ page = "dashboard"
  /\ attempts # <<>>
  /\ attempts[Len(attempts)].keystroke_match
  /\ ~run.error

---------------------------------------------------------------------------
(* One verify call, statement by statement, beside another login of the     *)
(* same subject.  The function is VOLATILE plpgsql and the rpc runs READ    *)
(* COMMITTED: each of its SELECTs reads the tables as committed when that   *)
(* statement starts.                                                        *)

Subject == "u1"

\* the verify call is about to start; input keeps the tables at that moment
InitSnapshot ==
  /\ pc = "idle" /\ run = IdleRun /\ page = "login" /\ accounts = {}
  /\ \E t \in SeqsUpTo(SessionKinds, MaxSessions), aa \in AttemptTables :
       \E c \in {k \in 1..Len(t) : t[k].user_id = Subject} :
         /\ sessions = Keyed(t, "ascending")
         /\ attempts = aa
         /\ input = [sessions |-> Keyed(t, "ascending"), attempts |-> aa,
                     user_id |-> Subject, session_id |-> c]
  /\ output = [done |-> FALSE, stage |-> "threshold", other |-> "session",
               other_session |-> NULL]

\* adaptive_threshold := calculate_adaptive_threshold(user_id)
VerifyThreshold ==
  /\ output.stage = "threshold"
  /\ output' = [output EXCEPT !.stage = "current"] @@
                 [threshold |-> calculate_adaptive_threshold(
                                  attempts, Clock(attempts), input.user_id,
                                  DefaultRecentAttempts)]
  /\ UNCHANGED <<pageVars, input>>

\* WITH current_keystrokes AS ... INTO current_dwell_times, current_flight_times
VerifyCurrent ==
  /\ output.stage = "current"
  /\ output' = [output EXCEPT !.stage = "history"] @@
                 [current |-> CurrentRows(sessions, input.session_id)]
  /\ UNCHANGED <<pageVars, input>>

\* WITH historical_sessions AS ... INTO historical_patterns, and the rest of
\* the body, which reads no table
VerifyHistory ==
  /\ output.stage = "history"
  /\ \E calculation \in CalculationOutcomes :
       output' = [output EXCEPT !.stage = "returned", !.done = TRUE] @@
                   [calculation |-> calculation,
                    result |-> verify_statements(output.threshold, output.current,
                                                 sessions, attempts,
                                                 input.user_id, input.user_id,
                                                 input.session_id, calculation)]
  /\ UNCHANGED <<pageVars, input>>

\* the other login: insert into keystroke_sessions
OtherInsertSession ==
  /\ output.other = "session"
  /\ sessions' = Append(sessions, [id |-> NewSessionId(sessions),
                                   user_id |-> Subject, rows |-> <<>>])
  /\ output' = [output EXCEPT !.other = "keystrokes",
                              !.other_session = NewSessionId(sessions)]
  /\ UNCHANGED <<attempts, pc, run, page, accounts, input>>

\* the other login: insert into keystroke_data
OtherInsertKeystrokes ==
  /\ output.other = "keystrokes"
  /\ \E len \in 1..MaxLen :
       sessions' = StoreRows(sessions, output.other_session, SampleRows(len))
  /\ output' = [output EXCEPT !.other = "attempt"]
  /\ UNCHANGED <<attempts, pc, run, page, accounts, input>>

\* the other login: insert into auth_attempts
OtherRecordAttempt ==
  /\ output.other = "attempt"
  /\ attempts' = Append(attempts,
       [AttemptRow(Subject, TRUE, Clock(attempts))
          EXCEPT !.for_session = output.other_session])
  /\ output' = [output EXCEPT !.other = "finished"]
  /\ UNCHANGED <<sessions, pc, run, page, accounts, input>>

NextSnapshot ==
  \/ VerifyThreshold
  \/ VerifyCurrent
  \/ VerifyHistory
  \/ OtherInsertSession
  \/ OtherInsertKeystrokes
  \/ OtherRecordAttempt

SpecSnapshot == InitSnapshot /\ [][NextSnapshot]_vars

\* what the call returns when every statement reads the tables of its start
SnapshotResult ==
  verify_keystroke_pattern(input.sessions, input.attempts, Clock(input.attempts),
                           input.user_id, input.user_id, input.session_id,
                           output.calculation)

\* C21: a verify call works on the snapshot taken at its start: a session or
\* an attempt another login of the same subject records while the call is in
\* flight never changes the call's result.
C21_ResultOfStartSnapshot ==
  output.stage = "returned" => output.result = SnapshotResult

\* C21: the other login recorded its attempt while the call was in flight
C21_Witness ==
  /\ output.stage = "returned"
  /\ Len(attempts) > Len(input.attempts)
  /\ Len(sessions) > Len(input.sessions)
  /\ ~output.result.error


---------------------------------------------------------------------------
(* Properties of verify over the tables of several subjects (SpecHistory) *)

\* the rows of a table that a subject owns
OwnedBy(table, u) == SelectSeq(table, LAMBDA row : row.user_id = u)

\* the same call on tables that hold the subject's own rows only
ResultOnOwnRows ==
  verify_keystroke_pattern(OwnedBy(input.sessions, input.user_id),
                           OwnedBy(input.attempts, input.user_id),
                           Len(input.attempts) + 1,
                           output.requesting_user, input.user_id, input.session_id,
                           output.calculation)

\* C22: verify(user_id, session_id) is refused unless the authenticated caller
\* is user_id, and its outcome for the subject is the same whatever sessions,
\* keystroke samples and attempts other subjects own, also when session_id
\* names a session the subject does not own.
C22_OtherSubjectsNeverMatter ==
  output.done =>
    /\ output.requesting_user # input.user_id => output.result.raised
    /\ output.result = ResultOnOwnRows

\* C22: the subject's call names another subject's session and gets a score
C22_Witness ==
  /\ output.done
  /\ output.requesting_user = input.user_id
  /\ \E i \in 1..Len(input.sessions) :
       input.sessions[i].id = input.session_id /\ input.sessions[i].user_id # input.user_id
  /\ output.result.match_score # NULL
  /\ output.result # ResultOnOwnRows


---------------------------------------------------------------------------
(* KeystrokeInput: the typing test.  input holds the component's state      *)
(* (text, input, keystrokes, error), the time since startTime and the keys  *)
(* the user holds down; output holds the list last given to onComplete.     *)

MaxText == 2         \* characters of the prompt
MaxElapsed == 2      \* milliseconds since startTime
MaxStrokes == 2      \* entries of the keystroke list

\* the prompts: texts of MaxText characters
Prompts == {t \in SeqsUpTo({"a", "b"}, MaxText) : Len(t) = MaxText}

\* e.key: the characters of the prompts and a modifier
Keys == {"a", "b", "Shift"}

\* prev + e.key appends the characters of the key's name
KeyChars(key) == IF key = "Shift" THEN <<"S", "h", "i", "f", "t">> ELSE <<key>>

NoError == <<>>

Mounted(text) ==
  [text |-> text, input |-> <<>>, keystrokes |-> <<>>, error |-> NoError,
   elapsed |-> 0, down |-> {}]

InitTyping ==
  /\ PagesIdle
  /\ \E text \in Prompts : input = Mounted(text)
  /\ output = NoOutput

\* useEffect: onComplete(keystrokes) when input.length === text.length
Effect(c) ==
  IF Len(c.input) = Len(c.text)
  THEN output' = [done |-> TRUE, keystrokes |-> c.keystrokes]
  ELSE UNCHANGED output

\* a key goes down, or repeats while it is held
handleKeyDown ==
  \E key \in Keys, dt \in {0, 1} :
    /\ input.elapsed + dt <= MaxElapsed
    /\ Len(input.keystrokes) < MaxStrokes
    /\ LET c == [input EXCEPT !.elapsed = @ + dt, !.down = @ \cup {key}]
       IN IF Len(c.input) >= Len(c.text)
          THEN input' = c /\ UNCHANGED output
          ELSE IF key # c.text[Len(c.input) + 1]
          THEN input' = [c EXCEPT !.error = <<c.text[Len(c.input) + 1], key>>]
               /\ UNCHANGED output
          ELSE \E n \in {[c EXCEPT !.error = NoError,
                                   !.keystrokes = Append(@, [key |-> key,
                                                             press_time |-> c.elapsed,
                                                             release_time |-> 0])]} :
                 input' = n /\ Effect(n)
    /\ UNCHANGED pageVars

\* a held key goes up
handleKeyUp ==
  \E key \in input.down, dt \in {0, 1} :
    /\ input.elapsed + dt <= MaxElapsed
    /\ LET c == [input EXCEPT !.elapsed = @ + dt, !.down = @ \ {key}]
       IN IF Len(c.input) > Len(c.text)
          THEN input' = c /\ UNCHANGED output
          ELSE \E n \in {[c EXCEPT
                   !.keystrokes = [i \in 1..Len(@) |->
                                     IF i = Len(@)
                                     THEN [@[i] EXCEPT !.release_time = c.elapsed]
                                     ELSE @[i]],
                   !.input = @ \o KeyChars(key)]} :
                 input' = n /\ Effect(n)
    /\ UNCHANGED pageVars

\* the reset button
resetTest ==
  /\ input # Mounted(input.text)
  /\ \E n \in {[Mounted(input.text) EXCEPT !.down = input.down]} :
       input' = n /\ Effect(n)
  /\ UNCHANGED pageVars

NextTyping == handleKeyDown \/ handleKeyUp \/ resetTest

SpecTyping == InitTyping /\ [][NextTyping]_vars

\* C29: for every sequence of key-down and key-up events, wrong keys and a
\* reset included, whenever onComplete is invoked the keystroke list has
\* exactly text.length entries, the keys in order spell the prompt, every
\* entry has release_time >= press_time, and press times never decrease.
C29_CompletedListSpellsPrompt ==
  output.done =>
    /\ Len(output.keystrokes) = Len(input.text)
    /\ \A i \in 1..Len(output.keystrokes) :
         /\ i <= Len(input.text) => output.keystrokes[i].key = input.text[i]
         /\ output.keystrokes[i].release_time >= output.keystrokes[i].press_time
         /\ i > 1 => output.keystrokes[i].press_time >= output.keystrokes[i - 1].press_time

\* C29: onComplete was invoked after the release of a wrong key had been
\* taken into the input
C29_Witness ==
  /\ output.done
  /\ Len(input.input) = Len(input.text)
  /\ input.input # input.text
  /\ output.keystrokes = input.keystrokes

=============================================================================
